---------------------------- MODULE Spec2Model ----------------------------
(* A model of timkanbur/asyncNetwork: the Socket.IO relay server            *)
(* (src/server.py), the discovery client and its event manager              *)
(* (src/client.py), and the application's wait for a discovery run          *)
(* (src/sample_manager.py).                                                 *)
(*                                                                          *)
(* Every coroutine is cut at its awaits: one action is the code that runs   *)
(* between two suspension points of a handler, so the interleavings of the  *)
(* actions are the schedules of the asyncio event loop.                     *)
EXTENDS Integers, Sequences, FiniteSets, TLC

(***************************************************************************)
(* Bounds of the model.                                                    *)
(***************************************************************************)
\* Connections made to the server in one run, each with a sid of its own:
\* the sids are 1..NumSids.
NumSids == 3
\* Discover handlers that may be in their sleep at the same time.
MaxPending == 1
\* Listeners registered for one event type.
MaxListeners == 2
\* Entries that potential_servers holds at most.
MaxPotential == 2

\* Hosts that send datagrams to the broadcast port.
NumHosts == 2

SIDS == 1..NumSids

(***************************************************************************)
(* Constants of src/server.py.                                             *)
(***************************************************************************)
MAX_CLIENTS == 2
NETWORK_INFO == "NET_INFO"
NETWORK_WARNING == "NET_WARNING"
NETWORK_DISCOVER == "NET_DISCOVER"
NETWORK_PACKET == "RELAY"
\* Server(session_name="MyServer", session_port=50000)
session_name == "MyServer"
session_port == 50000

BROADCAST_MESSAGE == "[Tictactoe Server]"

(***************************************************************************)
(* Constants of src/client.py.                                             *)
(***************************************************************************)
SERVER_BROADCAST == BROADCAST_MESSAGE
CLIENT_DISCOVER_TIMEOUT == 20

(***************************************************************************)
(* Inputs.                                                                 *)
(***************************************************************************)
\* Values of different Python types share the fields of the model, so a str
\* that travels as event data or as a handler argument is tagged as one; a
\* dict is a record.
Str(s) == [str |-> s]

\* The host string a probing client sends as the data of NET_DISCOVER: each
\* connection has one of its own.
HostHint(sid) == Str("10.0.0." \o ToString(sid))
\* Relay envelopes a connection sends: dicts that hold, or lack, the keys
\* event_type and data.  The well-formed one differs from sender to sender.
Envelopes(sid) ==
    {[event_type |-> IF sid % 2 = 1 THEN "CHAT" ELSE "MOVE",
      data |-> Str("message " \o ToString(sid))],
     [event_type |-> "CHAT"],
     [data |-> Str("hello")]}

\* Line 36 of server.py: the datagram a server on `port` broadcasts.
BroadcastDatagram(port) == BROADCAST_MESSAGE \o " " \o ToString(port)

\* addr[0] of the datagrams the listener receives.
HostAddr(h) == "10.0.0." \o ToString(h)
Hosts == {HostAddr(h) : h \in 1..NumHosts}

\* Decoded payloads that reach the broadcast port: a server's broadcast, the
\* magic string with nothing after it, and payloads of other senders.
Datagrams ==
    {BroadcastDatagram(session_port),
     "[Tictactoe Server]",
     "[tictactoe server] 50000",
     "[Tictactoe Serve"}

VARIABLES
    connected_clients,  \* Server.connected_clients: a list of sids
    pc,                 \* per sid: where its connect/disconnect handler stands
    rejected,           \* sids whose connect handler took the capacity branch
    pending,            \* the discover handlers in their sleep: (sid, data) each
    capacity_warnings,  \* per sid: the capacity warnings emitted to it so far
    emitted,            \* the events the last server step passed to sio.emit, in order
    DISCOVER_ON,        \* Network.DISCOVER_ON
    broadcast_servers,  \* Network.broadcast_servers: a list of {host, port}
    dpc,                \* where the discover_servers task stands
    listen_i,           \* receive attempts the listen() loop has made
    probe_i,            \* index of the candidate the probing loop is at
    heard,              \* a broadcast with the magic prefix arrived in this listening window
    potential_servers,  \* Network.potential_servers: a list of reply fields
    _listeners,         \* NetworkEventManager._listeners: event type -> list of callbacks
    trigger,            \* the trigger_event call under way, or the last one
    calls,              \* the calls and returns of callbacks in that trigger_event, in order
    act                 \* the step taken last

serverVars == <<connected_clients, pc, rejected, pending, capacity_warnings, emitted>>
clientVars == <<DISCOVER_ON, broadcast_servers, dpc, listen_i, probe_i, heard, potential_servers>>
eventVars == <<_listeners, trigger, calls>>
vars == <<serverVars, clientVars, eventVars, act>>

(***************************************************************************)
(* Helpers.                                                                *)
(***************************************************************************)
Range(s) == {s[i] : i \in 1..Len(s)}

\* [client for client in self.connected_clients if client != sid]
OtherClients(sid) == SelectSeq(connected_clients, LAMBDA c : c # sid)

\* list.remove(x): drops the first occurrence of x.
RECURSIVE RemoveFirst(_, _)
RemoveFirst(s, x) ==
    IF s = <<>> THEN <<>>
    ELSE IF Head(s) = x THEN Tail(s)
    ELSE <<Head(s)>> \o RemoveFirst(Tail(s), x)

\* The transport hands the server the messages of a connection from the call
\* of its connect handler until the connection is closed.
Open(sid) == pc[sid] \in {"connect_await_info", "connect_await_warning", "up"}

\* One call of sio.emit(event, data, to=to).
Emit(event, data, to) == [to |-> to, event |-> event, data |-> data]

CapacityMessage == Str("[Server-Connect] Disconnected due to exceeded connections")

NoAct == [op |-> "none", sid |-> 0, arg |-> Str("")]
Step(op, sid, arg) == [op |-> op, sid |-> sid, arg |-> arg]

\* The capacity warnings among the events of one step, counted per receiver.
CountCapacity(events, sid) ==
    Cardinality({i \in 1..Len(events) :
        /\ events[i].to = sid
        /\ events[i].event = NETWORK_WARNING
        /\ events[i].data = CapacityMessage})

\* The per-sid counters after a step.
Observe ==
    capacity_warnings' =
        [s \in SIDS |-> capacity_warnings[s] + CountCapacity(emitted', s)]

(***************************************************************************)
\* No trigger_event call has been made.
NoTrigger == [event_type |-> "", data |-> Str(""), i |-> 0, at |-> "idle"]

(***************************************************************************)
(* Init: Server.__init__ and Network.__init__: no connection yet, the      *)
(* class-level lists empty, no discovery run started (DISCOVER_ON is set   *)
(* by start_discover only; FALSE stands for the attribute not being set).  *)
(***************************************************************************)
Init ==
    /\ connected_clients = <<>>
    /\ pc = [s \in SIDS |-> "idle"]
    /\ rejected = {}
    /\ pending = <<>>
    /\ capacity_warnings = [s \in SIDS |-> 0]
    /\ emitted = <<>>
    /\ DISCOVER_ON = FALSE
    /\ broadcast_servers = <<>>
    /\ dpc = "idle"
    /\ listen_i = 0
    /\ probe_i = 0
    /\ heard = FALSE
    /\ potential_servers = <<>>
    /\ _listeners = [t \in {} |-> <<>>]
    /\ trigger = NoTrigger
    /\ calls = <<>>
    /\ act = NoAct

(***************************************************************************)
(* connect(sid, environ), server.py 51-65.                                 *)
(***************************************************************************)
\* line 55: the capacity check.
ConnectAdmits == Len(connected_clients) < MAX_CLIENTS

\* Lines 55-57 and 60-61: from the call to the first await, or to the end
\* when no peer is registered (line 59 then follows at once).  The transport
\* gives every connection a sid of its own, so the handler runs once per sid.
connect(sid) ==
    /\ pc[sid] = "idle"
    /\ IF ConnectAdmits
       THEN /\ UNCHANGED rejected
            /\ IF connected_clients # <<>>
               THEN /\ emitted' = <<Emit(NETWORK_INFO,
                                       Str("[Server-Connect] User " \o ToString(sid) \o " connected"),
                                       connected_clients[1])>>
                    /\ pc' = [pc EXCEPT ![sid] = "connect_await_info"]
                    /\ UNCHANGED connected_clients
               ELSE /\ emitted' = <<>>
                    /\ connected_clients' = Append(connected_clients, sid)
                    /\ pc' = [pc EXCEPT ![sid] = "up"]
       ELSE /\ rejected' = rejected \cup {sid}
            /\ emitted' = <<Emit(NETWORK_WARNING, CapacityMessage, sid)>>
            /\ pc' = [pc EXCEPT ![sid] = "connect_await_warning"]
            /\ UNCHANGED connected_clients
    /\ act' = Step("connect", sid, Str(IF ConnectAdmits THEN "admitted" ELSE "rejected"))
    /\ Observe
    /\ UNCHANGED <<pending, clientVars, eventVars>>

\* Line 59, after the await of line 57 returned.
connect_append(sid) ==
    /\ pc[sid] = "connect_await_info"
    /\ connected_clients' = Append(connected_clients, sid)
    /\ pc' = [pc EXCEPT ![sid] = "up"]
    /\ emitted' = <<>>
    /\ act' = Step("connect_append", sid, Str(""))
    /\ Observe
    /\ UNCHANGED <<rejected, pending, clientVars, eventVars>>

\* Line 62, after the await of line 61 returned: sio.disconnect(sid) closes
\* the connection, and the transport calls the disconnect handler for it.
connect_disconnect(sid) ==
    /\ pc[sid] = "connect_await_warning"
    /\ pc' = [pc EXCEPT ![sid] = "kicked"]
    /\ emitted' = <<>>
    /\ act' = Step("connect_disconnect", sid, Str(""))
    /\ Observe
    /\ UNCHANGED <<connected_clients, rejected, pending, clientVars, eventVars>>

(***************************************************************************)
(* disconnect(sid), server.py 68-79.                                       *)
(***************************************************************************)
\* A remove that takes the last peer out when the sid is not in the list.
RemoveClientOrLast(sid) ==
    IF sid \in Range(connected_clients)
    THEN RemoveFirst(connected_clients, sid)
    ELSE SubSeq(connected_clients, 1, Len(connected_clients) - 1)

\* Line 76 inside the try of lines 71-79: list.remove raises ValueError for
\* a sid that is not in the list, which the except clause logs.
RemoveClient(sid) ==
    IF sid \in Range(connected_clients)
    THEN RemoveFirst(connected_clients, sid)
    ELSE connected_clients

\* Lines 72-74, and line 76 at once when there is nobody to notify.  The
\* handler runs when an established connection closes (pc "up") or when the
\* server closed it itself (pc "kicked").
disconnect(sid) ==
    /\ pc[sid] \in {"up", "kicked"}
    /\ IF OtherClients(sid) # <<>>
       THEN /\ emitted' = <<Emit(NETWORK_INFO,
                               Str("[Server-Disconnect] User " \o ToString(sid) \o " disconnected"),
                               OtherClients(sid)[1])>>
            /\ pc' = [pc EXCEPT ![sid] = "disconnect_await_info"]
            /\ UNCHANGED connected_clients
       ELSE /\ emitted' = <<>>
            /\ connected_clients' = RemoveClient(sid)
            /\ pc' = [pc EXCEPT ![sid] = "closed"]
    /\ act' = Step("disconnect", sid,
                   Str(IF sid \in Range(connected_clients) THEN "registered" ELSE "absent"))
    /\ Observe
    /\ UNCHANGED <<rejected, pending, clientVars, eventVars>>

\* Line 76, after the await of line 74 returned.
disconnect_remove(sid) ==
    /\ pc[sid] = "disconnect_await_info"
    /\ connected_clients' = RemoveClient(sid)
    /\ pc' = [pc EXCEPT ![sid] = "closed"]
    /\ emitted' = <<>>
    /\ act' = Step("disconnect_remove", sid,
                   Str(IF sid \in Range(connected_clients) THEN "registered" ELSE "absent"))
    /\ Observe
    /\ UNCHANGED <<rejected, pending, clientVars, eventVars>>

(***************************************************************************)
(* discover(sid, data), server.py 82-96.                                   *)
(***************************************************************************)
\* Line 85: the handler sleeps for a second before it looks at the registry.
discover(sid, data) ==
    /\ Open(sid)
    /\ Len(pending) < MaxPending
    /\ pending' = Append(pending, [sid |-> sid, data |-> data])
    /\ emitted' = <<>>
    /\ act' = Step("discover", sid, data)
    /\ Observe
    /\ UNCHANGED <<connected_clients, pc, rejected, clientVars, eventVars>>

\* The reply with the boundary at MAX_CLIENTS instead of MAX_CLIENTS + 1.
DiscoverReplyFullAtMax(data) ==
    IF Len(connected_clients) < MAX_CLIENTS
    THEN [connectable |-> TRUE,
          player_count |-> Len(connected_clients),
          session_name |-> session_name,
          session_host |-> data,
          session_port |-> session_port]
    ELSE [connectable |-> FALSE]

\* Lines 87-92: the payload of the reply.
DiscoverReply(data) ==
    IF Len(connected_clients) < MAX_CLIENTS + 1
    THEN [connectable |-> TRUE,
          player_count |-> Len(connected_clients),
          session_name |-> session_name,
          session_host |-> data,
          session_port |-> session_port]
    ELSE [connectable |-> FALSE]

\* s without its i-th element.
RemoveAt(s, i) == SubSeq(s, 1, i - 1) \o SubSeq(s, i + 1, Len(s))

\* Lines 87-93, after the sleep of the i-th sleeping handler: one emit to the
\* asking sid.
discover_reply(i) ==
    /\ i \in 1..Len(pending)
    /\ emitted' = <<Emit(NETWORK_DISCOVER, DiscoverReply(pending[i].data), pending[i].sid)>>
    /\ pending' = RemoveAt(pending, i)
    /\ act' = Step("discover_reply", pending[i].sid, pending[i].data)
    /\ Observe
    /\ UNCHANGED <<connected_clients, pc, rejected, clientVars, eventVars>>

(***************************************************************************)
(* relay(sid, data), server.py 99-117.                                     *)
(***************************************************************************)
\* Line 103.
Malformed(data) == "event_type" \notin DOMAIN data \/ "data" \notin DOMAIN data

\* The handler without the return of line 105: it goes on after the warning,
\* and ends in a second warning (line 113, or line 117 after the KeyError).
RelayEventsNoReturn(sid, data) ==
    IF Malformed(data)
    THEN <<Emit(NETWORK_WARNING, Str("[Server-Packet] Invalid data format"), sid),
           IF OtherClients(sid) # <<>>
           THEN Emit(NETWORK_WARNING, Str("[Server-Packet] Error processing your request"), sid)
           ELSE Emit(NETWORK_WARNING, Str("[Server-Packet] No clients available to send"), sid)>>
    ELSE IF OtherClients(sid) # <<>>
    THEN <<Emit(data["event_type"], data["data"], OtherClients(sid)[1])>>
    ELSE <<Emit(NETWORK_WARNING, Str("[Server-Packet] No clients available to send"), sid)>>

\* The handler without the else of lines 112-113: a lone sender hears nothing.
RelayEventsSilentDrop(sid, data) ==
    IF Malformed(data)
    THEN <<Emit(NETWORK_WARNING, Str("[Server-Packet] Invalid data format"), sid)>>
    ELSE IF OtherClients(sid) # <<>>
    THEN <<Emit(data["event_type"], data["data"], OtherClients(sid)[1])>>
    ELSE <<>>

\* Lines 103-113: what the handler emits; every path has one emit, and
\* nothing follows its await.
RelayEvents(sid, data) ==
    IF Malformed(data)
    THEN <<Emit(NETWORK_WARNING, Str("[Server-Packet] Invalid data format"), sid)>>
    ELSE IF OtherClients(sid) # <<>>
    THEN <<Emit(data["event_type"], data["data"], OtherClients(sid)[1])>>
    ELSE <<Emit(NETWORK_WARNING, Str("[Server-Packet] No clients available to send"), sid)>>

relay(sid, data) ==
    /\ Open(sid)
    /\ emitted' = RelayEvents(sid, data)
    /\ act' = Step("relay", sid, data)
    /\ Observe
    /\ UNCHANGED <<connected_clients, pc, rejected, pending, clientVars, eventVars>>

(***************************************************************************)
(* The server: every handler step of every connection.                     *)
(***************************************************************************)
ServerNext ==
    \/ \E sid \in SIDS : connect(sid)
    \/ \E sid \in SIDS : connect_append(sid)
    \/ \E sid \in SIDS : connect_disconnect(sid)
    \/ \E sid \in SIDS : disconnect(sid)
    \/ \E sid \in SIDS : disconnect_remove(sid)
    \/ \E sid \in SIDS : discover(sid, HostHint(sid))
    \/ \E i \in 1..MaxPending : discover_reply(i)
    \/ \E sid \in SIDS : \E data \in Envelopes(sid) : relay(sid, data)

ServerSpec == Init /\ [][ServerNext]_vars

\* The server with clients that send relay envelopes only, and with clients
\* that send discovery queries only.  relay writes no variable of the server
\* but the observation of its own step, and discover writes, besides that,
\* only `pending`, which no other handler reads: leaving one of them out
\* takes no state of the registry away from the other.
RelayNext ==
    \/ \E sid \in SIDS : connect(sid)
    \/ \E sid \in SIDS : connect_append(sid)
    \/ \E sid \in SIDS : connect_disconnect(sid)
    \/ \E sid \in SIDS : disconnect(sid)
    \/ \E sid \in SIDS : disconnect_remove(sid)
    \/ \E sid \in SIDS : \E data \in Envelopes(sid) : relay(sid, data)

RelaySpec == Init /\ [][RelayNext]_vars

DiscoverNext ==
    \/ \E sid \in SIDS : connect(sid)
    \/ \E sid \in SIDS : connect_append(sid)
    \/ \E sid \in SIDS : connect_disconnect(sid)
    \/ \E sid \in SIDS : disconnect(sid)
    \/ \E sid \in SIDS : disconnect_remove(sid)
    \/ \E sid \in SIDS : discover(sid, HostHint(sid))
    \/ \E i \in 1..MaxPending : discover_reply(i)

DiscoverSpec == Init /\ [][DiscoverNext]_vars

(***************************************************************************)
(* Claims about the server.                                                *)
(***************************************************************************)
Registered == Range(connected_clients)

\* The events of the last step that went to sid.
EventsTo(sid) == SelectSeq(emitted, LAMBDA e : e.to = sid)

\* C1: in every reachable state len(connected_clients) <= MAX_CLIENTS, also
\* when connect handlers are suspended between the capacity check and the
\* append.
C1_CapacityBound == Len(connected_clients) <= MAX_CLIENTS

\* C2: a connect handled while MAX_CLIENTS peers are registered sends the
\* new sid exactly one capacity warning, disconnects it, and leaves
\* connected_clients as it was: the sid is never in it, and no step of its
\* connect or disconnect handler changes it.
C2_RejectedStates ==
    \A s \in rejected :
        /\ s \notin Registered
        /\ capacity_warnings[s] = 1
        /\ pc[s] \in {"connect_await_warning", "kicked", "disconnect_await_info", "closed"}

C2_CapacityRejection ==
    [][/\ C2_RejectedStates
       /\ C2_RejectedStates'
       /\ \A s \in SIDS :
            (s \notin rejected /\ s \in rejected')
                => /\ Len(connected_clients) >= MAX_CLIENTS
                   /\ emitted' = <<Emit(NETWORK_WARNING, CapacityMessage, s)>>
       /\ \A s \in rejected' :
            pc'[s] # pc[s] => connected_clients' = connected_clients]_vars

C2_Witness ==
    \E s \in rejected :
        /\ pc[s] = "closed"
        /\ Len(connected_clients) = MAX_CLIENTS
        /\ capacity_warnings[s] = 1

\* C3: the disconnect handler for a sid that is not in connected_clients is
\* a no-op: none of its steps emits an event or changes connected_clients.
C3_AbsentDisconnectNoOp ==
    [][(/\ act'.op \in {"disconnect", "disconnect_remove"}
        /\ act'.arg = Str("absent"))
          => /\ emitted' = <<>>
             /\ connected_clients' = connected_clients]_vars

\* C4: a well-formed envelope {event_type: t, data: d} relayed for a
\* registered sender reaches every other registered peer exactly once, as
\* event t with data d, and nothing goes to the sender.
C4_RelayReachesPeer ==
    (/\ act.op = "relay"
     /\ {"event_type", "data"} \subseteq DOMAIN act.arg
     /\ act.sid \in Registered)
        => \A b \in Registered \ {act.sid} :
                /\ EventsTo(b) = <<Emit(act.arg.event_type, act.arg.data, b)>>
                /\ EventsTo(act.sid) = <<>>

\* C5: an envelope that lacks event_type or data reaches no peer, gets the
\* sender exactly one NET_WARNING, and changes neither connected_clients nor
\* the state of any connection.
C5_MalformedRelay ==
    [][(/\ act'.op = "relay"
        /\ ~({"event_type", "data"} \subseteq DOMAIN act'.arg))
          => /\ Len(emitted') = 1
             /\ emitted'[1].to = act'.sid
             /\ emitted'[1].event = NETWORK_WARNING
             /\ connected_clients' = connected_clients
             /\ pc' = pc]_vars

C5_Witness ==
    /\ act.op = "relay"
    /\ ~({"event_type", "data"} \subseteq DOMAIN act.arg)
    /\ Len(connected_clients) = MAX_CLIENTS
    /\ act.sid \in Registered
    /\ Len(emitted) = 1

\* C6: a well-formed envelope from the only registered peer gets the sender
\* exactly one NET_WARNING and is delivered to nobody; and an application
\* event is only ever emitted by the relay step that handles its envelope,
\* to a peer registered at that moment, so nothing is kept for a later peer.
C6_LoneSenderWarned ==
    [][/\ (/\ act'.op = "relay"
           /\ {"event_type", "data"} \subseteq DOMAIN act'.arg
           /\ Registered = {act'.sid})
             => /\ Len(emitted') = 1
                /\ emitted'[1].to = act'.sid
                /\ emitted'[1].event = NETWORK_WARNING
       /\ \A i \in 1..Len(emitted') :
            emitted'[i].event \notin {NETWORK_INFO, NETWORK_WARNING, NETWORK_DISCOVER}
                => /\ act'.op = "relay"
                   /\ emitted'[i].event = act'.arg.event_type
                   /\ emitted'[i].data = act'.arg.data
                   /\ emitted'[i].to \in Registered \ {act'.sid}]_vars

C6_Witness ==
    /\ act.op = "relay"
    /\ {"event_type", "data"} \subseteq DOMAIN act.arg
    /\ Registered = {act.sid}
    /\ Len(emitted) = 1
    /\ \E s \in SIDS \ {act.sid} : pc[s] = "closed"

\* C7: a discovery query from sid with host hint h changes nothing in
\* connected_clients and is answered by one NET_DISCOVER event to sid alone:
\* connectable with player_count = len(connected_clients), the session name,
\* h and the session port if len(connected_clients) < MAX_CLIENTS + 1 at the
\* reply, {connectable: false} otherwise.
C7_DiscoverAnswer ==
    [][/\ act'.op = "discover"
            => /\ emitted' = <<>>
               /\ connected_clients' = connected_clients
               /\ pending' = Append(pending, [sid |-> act'.sid, data |-> act'.arg])
       /\ act'.op = "discover_reply"
            => /\ connected_clients' = connected_clients
               /\ Len(pending') = Len(pending) - 1
               /\ Len(emitted') = 1
               /\ emitted'[1].to = act'.sid
               /\ emitted'[1].event = NETWORK_DISCOVER
               /\ emitted'[1].data =
                    IF Len(connected_clients) <= MAX_CLIENTS
                    THEN [connectable |-> TRUE,
                          player_count |-> Len(connected_clients),
                          session_name |-> "MyServer",
                          session_host |-> act'.arg,
                          session_port |-> 50000]
                    ELSE [connectable |-> FALSE]]_vars

C7_Witness ==
    /\ act.op = "discover_reply"
    /\ Len(connected_clients) = MAX_CLIENTS
    /\ Len(emitted) = 1
    /\ emitted[1].data.connectable
    /\ emitted[1].data.player_count = MAX_CLIENTS

\* C8: the player_count of a connectable discovery reply is the number of
\* registered peers other than the asking connection.
C8_ProbeNotCounted ==
    (act.op = "discover_reply" /\ emitted[1].data.connectable)
        => emitted[1].data.player_count = Cardinality(Registered \ {act.sid})

(***************************************************************************)
(* The discovery client, client.py 45-82.                                  *)
(***************************************************************************)
\* Python's s[:n] and s[n:].
SliceTo(s, n) == SubSeq(s, 1, IF Len(s) < n THEN Len(s) ELSE n)
SliceFrom(s, n) == SubSeq(s, n + 1, Len(s))

\* Line 70: Thread.join() is an ordinary blocking call made by the
\* discover_servers coroutine, so the thread of the event loop waits in it
\* until listen() ends, and no other coroutine of the loop runs meanwhile.
LoopBlocked == dpc = "listening"

\* Lines 45-48.  The model starts a run only when no run is under way.
start_discover ==
    /\ dpc \in {"idle", "done", "failed"}
    /\ DISCOVER_ON' = TRUE
    /\ dpc' = "scheduled"
    /\ act' = Step("start_discover", 0, Str(""))
    /\ UNCHANGED <<broadcast_servers, listen_i, probe_i, heard, potential_servers, serverVars, eventVars>>

\* Lines 68-69 and 54-56: the task starts the thread, which binds its socket.
discover_servers ==
    /\ dpc = "scheduled"
    /\ dpc' = "listening"
    /\ listen_i' = 0
    /\ heard' = FALSE
    /\ act' = Step("discover_servers", 0, Str(""))
    /\ UNCHANGED <<DISCOVER_ON, broadcast_servers, probe_i, potential_servers, serverVars, eventVars>>

\* A loop that runs once more than its budget.
ListenBudgetLeftOffByOne == listen_i <= CLIENT_DISCOVER_TIMEOUT

\* Line 57: range(CLIENT_DISCOVER_TIMEOUT) has an iteration left.
ListenBudgetLeft == listen_i < CLIENT_DISCOVER_TIMEOUT

\* The condition of line 62, keeping every datagram with the magic prefix.
IsNewServerNoDedup(data, host) ==
    SliceTo(data, 18) = SERVER_BROADCAST

\* Line 62.
IsNewServer(data, host) ==
    /\ SliceTo(data, 18) = SERVER_BROADCAST
    /\ \A i \in 1..Len(broadcast_servers) : broadcast_servers[i].host # host

\* Lines 60-64: one iteration in which recvfrom returns a datagram that
\* decodes to `data`, sent by `host`.
listen_recv(data, host) ==
    /\ dpc = "listening"
    /\ ListenBudgetLeft
    /\ broadcast_servers' =
            IF IsNewServer(data, host)
            THEN Append(broadcast_servers,
                        [host |-> host,
                         port |-> SliceFrom(data, Len(SERVER_BROADCAST) + 1)])
            ELSE broadcast_servers
    /\ listen_i' = listen_i + 1
    /\ heard' = (heard \/ SliceTo(data, 18) = SERVER_BROADCAST)
    /\ act' = Step("listen_recv", 0, [datagram |-> data, addr |-> host])
    /\ UNCHANGED <<DISCOVER_ON, dpc, probe_i, potential_servers, serverVars, eventVars>>

\* Lines 65-67: recvfrom times out after a second.
listen_timeout ==
    /\ dpc = "listening"
    /\ ListenBudgetLeft
    /\ listen_i' = listen_i + 1
    /\ act' = Step("listen_timeout", 0, Str(""))
    /\ UNCHANGED <<DISCOVER_ON, broadcast_servers, dpc, probe_i, heard, potential_servers, serverVars, eventVars>>

\* Lines 74-75 and 82: the for loop comes to its i-th candidate.  With a
\* candidate left the task suspends in the await of self.connect for it;
\* behind the last one the loop is over and line 82 runs in the same step,
\* which ends the task.
LoopAt(i) ==
    /\ probe_i' = i
    /\ IF i <= Len(broadcast_servers)
       THEN dpc' = "probing" /\ UNCHANGED DISCOVER_ON
       ELSE dpc' = "done" /\ DISCOVER_ON' = FALSE

\* Line 61: a datagram that is not UTF-8 raises UnicodeDecodeError, which
\* nothing catches: the thread ends, join (line 70) returns, and the task
\* goes on to the loop of line 74.
listen_decode_error ==
    /\ dpc = "listening"
    /\ ListenBudgetLeft
    /\ listen_i' = listen_i + 1
    /\ LoopAt(1)
    /\ act' = Step("listen_decode_error", 0, Str(""))
    /\ UNCHANGED <<broadcast_servers, heard, potential_servers, serverVars, eventVars>>

\* Lines 57 and 70-74: the loop of listen() is over, the thread ends, join
\* returns, and the task goes on to the loop of line 74.
listen_join ==
    /\ dpc = "listening"
    /\ ~ListenBudgetLeft
    /\ LoopAt(1)
    /\ act' = Step("listen_join", 0, Str(""))
    /\ UNCHANGED <<broadcast_servers, listen_i, heard, potential_servers, serverVars, eventVars>>

\* Lines 75 and 79-80: the outcome of Network.connect (lines 122-131) for
\* the candidate the loop is at: True, and the task suspends in the emit of
\* line 76; or False after the exception of sio.connect was caught and
\* logged, and the loop goes to the next candidate.
probe_connect(ok) ==
    /\ dpc = "probing"
    /\ probe_i <= Len(broadcast_servers)
    /\ IF ok
       THEN dpc' = "probe_emit" /\ UNCHANGED <<probe_i, DISCOVER_ON>>
       ELSE LoopAt(probe_i + 1)
    /\ act' = Step("probe_connect", 0, [candidate |-> probe_i, connected |-> ok])
    /\ UNCHANGED <<broadcast_servers, listen_i, heard, potential_servers, serverVars, eventVars>>

\* Line 76: the query goes out.
probe_emit ==
    /\ dpc = "probe_emit"
    /\ dpc' = "probe_sleep"
    /\ act' = Step("probe_emit", 0, Str(broadcast_servers[probe_i].host))
    /\ UNCHANGED <<DISCOVER_ON, broadcast_servers, listen_i, probe_i, heard, potential_servers, serverVars, eventVars>>

\* Line 76 when sio.emit raises, as it does on a connection the server has
\* closed (send_data, lines 141-144, catches the same call's exceptions;
\* discover_servers does not): the exception ends the task before line 82.
probe_emit_error ==
    /\ dpc = "probe_emit"
    /\ dpc' = "failed"
    /\ act' = Step("probe_emit_error", 0, Str(broadcast_servers[probe_i].host))
    /\ UNCHANGED <<DISCOVER_ON, broadcast_servers, listen_i, probe_i, heard, potential_servers, serverVars, eventVars>>

\* Line 77: the sleep of CLIENT_DISCOVER_DELAY seconds is over, whether or
\* not the reply has come in.
probe_sleep ==
    /\ dpc \in {"probe_sleep", "probe_replied"}
    /\ dpc' = "probe_disconnect"
    /\ act' = Step("probe_sleep", 0, Str(""))
    /\ UNCHANGED <<DISCOVER_ON, broadcast_servers, listen_i, probe_i, heard, potential_servers, serverVars, eventVars>>

\* Line 78 returns, and the loop goes to the next candidate.
probe_disconnect ==
    /\ dpc = "probe_disconnect"
    /\ LoopAt(probe_i + 1)
    /\ act' = Step("probe_disconnect", 0, Str(""))
    /\ UNCHANGED <<broadcast_servers, listen_i, heard, potential_servers, serverVars, eventVars>>

(***************************************************************************)
(* The client's handler of NET_DISCOVER replies, client.py 97-113.         *)
(***************************************************************************)
\* The replies a server sends to a query that carried `host` (server.py 88
\* and 92).
ServerReplies(host) ==
    {[connectable |-> TRUE,
      player_count |-> n,
      session_name |-> session_name,
      session_host |-> Str(host),
      session_port |-> session_port] : n \in 1..MAX_CLIENTS}
        \cup {[connectable |-> FALSE]}

\* The replies that reach a client that probes the hosts of the model.
Replies == UNION {ServerReplies(h) : h \in Hosts}

PotentialFields == {"player_count", "session_name", "session_host", "session_port"}

\* Lines 101-111: the entry is built and appended when the reply is
\* connectable; a missing field raises KeyError inside the try, which is
\* logged, and nothing is appended.
HandlerAppends(data) ==
    /\ data["connectable"]
    /\ PotentialFields \subseteq DOMAIN data

\* Line 113: the log line of the else branch reads data['session_port'],
\* outside any try.
HandlerRaises(data) ==
    /\ ~data["connectable"]
    /\ "session_port" \notin DOMAIN data

\* The handler runs for the one reply to the query of the probe, which the
\* server sends a second after the query, while the task sleeps at line 77.
discover_handler(data) ==
    /\ dpc = "probe_sleep"
    /\ data \in ServerReplies(broadcast_servers[probe_i].host)
    /\ Len(potential_servers) < MaxPotential
    /\ dpc' = "probe_replied"
    /\ potential_servers' =
            IF HandlerAppends(data)
            THEN Append(potential_servers,
                        [player_count |-> data["player_count"],
                         session_name |-> data["session_name"],
                         session_host |-> data["session_host"],
                         session_port |-> data["session_port"]])
            ELSE potential_servers
    /\ act' = Step("discover_handler", 0, [reply |-> data, raised |-> HandlerRaises(data)])
    /\ UNCHANGED <<DISCOVER_ON, broadcast_servers, listen_i, probe_i, heard, serverVars, eventVars>>

\* sample_manager.py 61-62: the application polls the flag once a second.
app_poll ==
    /\ DISCOVER_ON
    /\ ~LoopBlocked
    /\ act' = Step("app_poll", 0, Str(""))
    /\ UNCHANGED <<clientVars, serverVars, eventVars>>

\* One iteration of the loop of listen(), or its end.
ListenStep ==
    \/ \E data \in Datagrams, host \in Hosts : listen_recv(data, host)
    \/ listen_timeout
    \/ listen_decode_error
    \/ listen_join

\* The listener and the probing loop of one client.
ClientNext ==
    \/ start_discover
    \/ discover_servers
    \/ \E data \in Datagrams, host \in Hosts : listen_recv(data, host)
    \/ listen_timeout
    \/ listen_decode_error
    \/ listen_join
    \/ \E ok \in BOOLEAN : probe_connect(ok)
    \/ probe_emit
    \/ probe_emit_error
    \/ probe_sleep
    \/ probe_disconnect

ClientSpec == Init /\ [][ClientNext]_vars

\* recvfrom returns within its one-second timeout, so the thread keeps
\* taking the steps of its loop.
FairClientSpec == ClientSpec /\ WF_vars(ListenStep)

\* A step of the discover_servers task after the listening window.
ProbeStep ==
    \/ \E ok \in BOOLEAN : probe_connect(ok)
    \/ probe_emit
    \/ probe_emit_error
    \/ probe_sleep
    \/ probe_disconnect

\* The client with the replies of the probed servers and the application
\* that waits for the run.
DiscoveryNext ==
    \/ start_discover
    \/ discover_servers
    \/ \E data \in Datagrams, host \in Hosts : listen_recv(data, host)
    \/ listen_timeout
    \/ listen_decode_error
    \/ listen_join
    \/ \E ok \in BOOLEAN : probe_connect(ok)
    \/ probe_emit
    \/ probe_emit_error
    \/ probe_sleep
    \/ probe_disconnect
    \/ \E data \in Replies : discover_handler(data)
    \/ app_poll

DiscoverySpec == Init /\ [][DiscoveryNext]_vars

\* The event loop runs a task that is ready, the thread runs its loop, and
\* connect, emit, sleep and disconnect each come back: a started run keeps
\* taking steps.  Nothing obliges the application to start a run.
FairDiscoverySpec ==
    DiscoverySpec /\ WF_vars(discover_servers) /\ WF_vars(ListenStep) /\ WF_vars(ProbeStep)

(***************************************************************************)
(* NetworkEventManager, client.py 148-172.                                 *)
(***************************************************************************)
\* Event types the application registers listeners for (sample_manager.py
\* 56-57), and one more that arrives without a listener.
ListenerTypes == {"CHAT", "ACK"}
EventTypes == ListenerTypes \cup {"MOVE"}

\* Callbacks: a plain function and a coroutine function.
Callbacks == {"on_event", "on_event_async"}

\* Line 167: asyncio.iscoroutinefunction(callback).
iscoroutinefunction(callback) == callback = "on_event_async"

\* The payload of an event.
Payloads == {Str("This is a chat message")}

\* Lines 157-159.
AddListener(event_type, callback) ==
    IF event_type \notin DOMAIN _listeners
    THEN (event_type :> <<callback>>) @@ _listeners
    ELSE [_listeners EXCEPT ![event_type] = Append(@, callback)]

\* Lines 155-160.  The call is made by code that runs on the event loop.
add_listener(event_type, callback) ==
    /\ ~LoopBlocked
    /\ IF event_type \in DOMAIN _listeners
       THEN Len(_listeners[event_type]) < MaxListeners
       ELSE TRUE
    /\ _listeners' = AddListener(event_type, callback)
    /\ act' = Step("add_listener", 0, [event_type |-> event_type, callback |-> callback])
    /\ UNCHANGED <<trigger, calls, clientVars, serverVars>>

Called(callback, data) == [callback |-> callback, data |-> data, what |-> "call"]
Returned(callback, data) == [callback |-> callback, data |-> data, what |-> "return"]

\* A loop that goes through the listeners from the last to the first.
RECURSIVE RunCallbacksBackwards(_, _, _)
RunCallbacksBackwards(callbacks, i, data) ==
    LET j == Len(callbacks) + 1 - i IN
    IF i > Len(callbacks)
    THEN [calls |-> <<>>, i |-> i, at |-> "returned"]
    ELSE IF iscoroutinefunction(callbacks[j])
    THEN [calls |-> <<Called(callbacks[j], data)>>, i |-> i, at |-> "await"]
    ELSE LET rest == RunCallbacksBackwards(callbacks, i + 1, data)
         IN  [rest EXCEPT !.calls =
                    <<Called(callbacks[j], data), Returned(callbacks[j], data)>> \o @]

\* Lines 166-170 from the i-th listener on, up to the first await that
\* suspends (a coroutine callback, line 168) or to the end of the loop: a
\* plain callback is called and returns within the step (line 170).
RECURSIVE RunCallbacks(_, _, _)
RunCallbacks(callbacks, i, data) ==
    IF i > Len(callbacks)
    THEN [calls |-> <<>>, i |-> i, at |-> "returned"]
    ELSE IF iscoroutinefunction(callbacks[i])
    THEN [calls |-> <<Called(callbacks[i], data)>>, i |-> i, at |-> "await"]
    ELSE LET rest == RunCallbacks(callbacks, i + 1, data)
         IN  [rest EXCEPT !.calls =
                    <<Called(callbacks[i], data), Returned(callbacks[i], data)>> \o @]

\* Lines 162-172, from the call to the first suspension or to the end.
trigger_event(event_type, data) ==
    /\ ~LoopBlocked
    /\ trigger.at \in {"idle", "returned"}
    /\ IF event_type \in DOMAIN _listeners
       THEN LET run == RunCallbacks(_listeners[event_type], 1, data)
            IN  /\ calls' = run.calls
                /\ trigger' = [event_type |-> event_type, data |-> data,
                               i |-> run.i, at |-> run.at]
       ELSE /\ calls' = <<>>
            /\ trigger' = [event_type |-> event_type, data |-> data,
                           i |-> 0, at |-> "returned"]
    /\ act' = Step("trigger_event", 0, [event_type |-> event_type, data |-> data])
    /\ UNCHANGED <<_listeners, clientVars, serverVars>>

\* Line 168 when the awaited callback is done: the loop goes on with the
\* list as it is now.
callback_return ==
    /\ ~LoopBlocked
    /\ trigger.at = "await"
    /\ LET callbacks == _listeners[trigger.event_type]
           run == RunCallbacks(callbacks, trigger.i + 1, trigger.data)
       IN  /\ calls' = calls \o <<Returned(callbacks[trigger.i], trigger.data)>> \o run.calls
           /\ trigger' = [trigger EXCEPT !.i = run.i, !.at = run.at]
    /\ act' = Step("callback_return", 0,
                   [event_type |-> trigger.event_type, data |-> trigger.data])
    /\ UNCHANGED <<_listeners, clientVars, serverVars>>

EventNext ==
    \/ \E event_type \in ListenerTypes, callback \in Callbacks :
            add_listener(event_type, callback)
    \/ \E event_type \in EventTypes, data \in Payloads : trigger_event(event_type, data)
    \/ callback_return

EventSpec == Init /\ [][EventNext]_vars

(***************************************************************************)
(* Claims about the discovery listener, checked under ClientSpec and       *)
(* FairClientSpec.                                                         *)
(***************************************************************************)
CandidateHosts == {broadcast_servers[i].host : i \in 1..Len(broadcast_servers)}

NoTwoCandidatesOfOneHost ==
    \A i, j \in 1..Len(broadcast_servers) :
        broadcast_servers[i].host = broadcast_servers[j].host => i = j

\* C9: broadcast_servers never holds two candidates of one host; a datagram
\* adds the candidate {host, port} exactly when its first 18 characters are
\* the magic string and no candidate has its source host, and nothing else
\* changes the list.
C9_CandidatesUniquePerHost ==
    [][/\ NoTwoCandidatesOfOneHost
       /\ NoTwoCandidatesOfOneHost'
       /\ act'.op = "listen_recv"
            => LET d == act'.arg.datagram
                   h == act'.arg.addr
               IN  IF /\ Len(d) >= 18
                      /\ SubSeq(d, 1, 18) = "[Tictactoe Server]"
                      /\ h \notin CandidateHosts
                   THEN broadcast_servers' =
                            Append(broadcast_servers,
                                   [host |-> h, port |-> SubSeq(d, 20, Len(d))])
                   ELSE broadcast_servers' = broadcast_servers
       /\ act'.op # "listen_recv" => broadcast_servers' = broadcast_servers]_vars

C9_Witness ==
    /\ act.op = "listen_recv"
    /\ act.arg.datagram = "[Tictactoe Server] 50000"
    /\ Len(broadcast_servers) = 1
    /\ broadcast_servers[1] = [host |-> act.arg.addr, port |-> ""]

\* C10: the listening phase makes at most CLIENT_DISCOVER_TIMEOUT receive
\* attempts and always ends, whatever the attempts return; a receive timeout
\* only moves the loop to its next iteration.
C10_ListenTerminates ==
    /\ [](listen_i <= 20)
    /\ [][act'.op = "listen_timeout"
            => /\ listen_i' = listen_i + 1
               /\ dpc' = "listening"
               /\ broadcast_servers' = broadcast_servers]_vars
    /\ (dpc = "listening") ~> (dpc # "listening")

C10_Witness ==
    /\ act.op = "listen_join"
    /\ dpc = "probing"
    /\ listen_i = 20
    /\ Len(broadcast_servers) = 1

(***************************************************************************)
(* Claims about the probing loop, the event loop and the event manager.    *)
(***************************************************************************)
\* The steps of the probing loop: every probe_connect step is an attempt on
\* the candidate the loop is at, and the loop goes through the list one
\* candidate at a time; after a failed attempt no query is sent and the loop
\* stands at the next candidate, or is over behind the last one; line 82 is
\* reached only behind the last one.
C11_ProbeSteps ==
    [][/\ act'.op = "probe_connect"
            => /\ probe_i \in 1..Len(broadcast_servers)
               /\ act'.arg.candidate = probe_i
               /\ broadcast_servers' = broadcast_servers
               /\ IF act'.arg.connected
                  THEN dpc' = "probe_emit" /\ probe_i' = probe_i
                  ELSE /\ probe_i' = probe_i + 1
                       /\ dpc' = IF probe_i < Len(broadcast_servers)
                                 THEN "probing" ELSE "done"
       /\ act'.op \in {"probe_emit", "probe_emit_error"}
            => /\ act.op = "probe_connect"
               /\ act.arg.connected
               /\ act.arg.candidate = probe_i
       /\ probe_i' # probe_i
            => \/ /\ probe_i' = probe_i + 1
                  /\ act'.op \in {"probe_connect", "probe_disconnect"}
               \/ /\ probe_i' = 1
                  /\ dpc = "listening"
       /\ (dpc # "done" /\ dpc' = "done")
            => /\ probe_i' = Len(broadcast_servers) + 1
               /\ ~DISCOVER_ON']_vars

\* The candidates that have had their connection attempt once the task of
\* the run has ended: all before probe_i, and probe_i itself when the task
\* ended in the probe of it.
AttemptedWhenEnded == IF dpc = "failed" THEN probe_i ELSE probe_i - 1

\* C11: the probing loop attempts a connection to every candidate of
\* broadcast_servers, in list order: a failed attempt sends no query and
\* leaves the loop at the next candidate, and when the task of the run has
\* ended, every candidate of the list has had its attempt.
C11_EveryCandidateAttempted ==
    /\ C11_ProbeSteps
    /\ [](dpc \in {"done", "failed"} => AttemptedWhenEnded >= Len(broadcast_servers))

\* C12: while the run is in its listening window, another coroutine of the
\* client's event loop can take a step: the application's poll of the flag,
\* or the dispatch of an inbound event.
C12_LoopFreeWhileListening ==
    dpc = "listening"
        => ENABLED (app_poll \/ \E data \in Payloads : trigger_event("CHAT", data))

\* C13: add_listener appends the callback to the list of its type and to no
\* other; a trigger_event call for type t calls the listeners of t, each
\* once per registration and in the order of registration, with the data of
\* the event, each one returning before the next is called; for a type
\* without listeners it calls nothing.
ExpectedCalls(callbacks, data) ==
    [k \in 1..(2 * Len(callbacks)) |->
        IF k % 2 = 1
        THEN Called(callbacks[(k + 1) \div 2], data)
        ELSE Returned(callbacks[k \div 2], data)]

C13_TriggerInvokesListeners ==
    [][/\ act'.op = "add_listener"
            => /\ DOMAIN _listeners' = DOMAIN _listeners \cup {act'.arg.event_type}
               /\ \A t \in DOMAIN _listeners' :
                    _listeners'[t] =
                        IF t = act'.arg.event_type
                        THEN (IF t \in DOMAIN _listeners THEN _listeners[t] ELSE <<>>)
                                \o <<act'.arg.callback>>
                        ELSE _listeners[t]
               /\ calls' = calls
       /\ act'.op \in {"trigger_event", "callback_return"}
            => /\ _listeners' = _listeners
               /\ trigger'.event_type = act'.arg.event_type
               /\ trigger'.at \in {"await", "returned"}
               /\ IF act'.arg.event_type \notin DOMAIN _listeners
                  THEN calls' = <<>> /\ trigger'.at = "returned"
                  ELSE LET callbacks == _listeners[act'.arg.event_type]
                           expected == ExpectedCalls(callbacks, act'.arg.data)
                       IN  IF trigger'.at = "returned"
                           THEN calls' = expected
                           ELSE /\ Len(calls') % 2 = 1
                                /\ Len(calls') < Len(expected)
                                /\ calls' = SubSeq(expected, 1, Len(calls'))]_vars

C13_Witness ==
    /\ act.op = "callback_return"
    /\ trigger.at = "returned"
    /\ trigger.event_type = "CHAT"
    /\ DOMAIN _listeners = {"CHAT", "ACK"}
    /\ _listeners["CHAT"] = <<"on_event_async", "on_event_async">>
    /\ _listeners["ACK"] = <<"on_event">>
    /\ Len(calls) = 4

\* C14: in a run whose listening window went through all its receive
\* attempts without a broadcast, the candidate list is empty once the window
\* has closed, and no step of the run is a probe of a candidate.
C14_SilentWindowNoProbe ==
    (/\ dpc \in {"probing", "probe_emit", "probe_sleep", "probe_replied",
                 "probe_disconnect", "failed", "done"}
     /\ listen_i = CLIENT_DISCOVER_TIMEOUT
     /\ ~heard)
        => /\ broadcast_servers = <<>>
           /\ act.op \notin {"probe_connect", "probe_emit", "probe_emit_error",
                             "probe_sleep", "probe_disconnect"}

\* C15: the disconnect handler of a registered sid sends every other
\* registered peer exactly one NET_INFO event about it, and no event when
\* there is none; its remove takes the sid out of connected_clients and
\* leaves the rest of the list as it is.
C15_DisconnectNotifiesPeer ==
    /\ []((act.op = "disconnect" /\ act.arg = Str("registered"))
            => /\ \A b \in Registered \ {act.sid} :
                    EventsTo(b) =
                        <<Emit(NETWORK_INFO,
                               Str("[Server-Disconnect] User " \o ToString(act.sid)
                                        \o " disconnected"),
                               b)>>
               /\ EventsTo(act.sid) = <<>>
               /\ Len(emitted) <= 1)
    /\ [][(/\ act'.op \in {"disconnect", "disconnect_remove"}
           /\ act'.arg = Str("registered")
           /\ pc'[act'.sid] = "closed")
            => /\ act'.sid \notin Range(connected_clients')
               /\ connected_clients' =
                    SelectSeq(connected_clients, LAMBDA c : c # act'.sid)]_vars

\* C16: every discovery run that was started reaches its end, where
\* DISCOVER_ON is False.
C16_RunFinishes == DISCOVER_ON ~> ~DISCOVER_ON

\* C17: the client's handler of a discovery reply appends exactly one entry
\* with the four fields of a connectable reply, and for {connectable: false}
\* it leaves potential_servers as it is and does not raise.
C17_ReplyHandler ==
    [][act'.op = "discover_handler"
        => IF act'.arg.reply.connectable
           THEN /\ PotentialFields \subseteq DOMAIN act'.arg.reply
                /\ potential_servers' =
                        Append(potential_servers,
                               [f \in PotentialFields |-> act'.arg.reply[f]])
                /\ ~act'.arg.raised
           ELSE /\ potential_servers' = potential_servers
                /\ ~act'.arg.raised]_vars

\* C18: an envelope relayed for a sender that is not in connected_clients
\* is delivered to nobody: what the step emits goes to the sender.
C18_RelayOnlyFromRegistered ==
    (act.op = "relay" /\ act.sid \notin Registered)
        => \A i \in 1..Len(emitted) : emitted[i].to = act.sid

\* C19: when a discovery reply says connectable, fewer than MAX_CLIENTS
\* peers other than the asking connection are registered.
C19_ConnectableMeansSeat ==
    (act.op = "discover_reply" /\ emitted[1].data.connectable)
        => Cardinality(Registered \ {act.sid}) < MAX_CLIENTS

\* C20: potential_servers never holds two entries with the same
\* session_host.
C20_PotentialUniquePerHost ==
    \A i, j \in 1..Len(potential_servers) :
        potential_servers[i].session_host = potential_servers[j].session_host => i = j

====
